---------------------------- MODULE Spec2Model ----------------------------
(***************************************************************************)
(* Model of the USB accessory subsystem of multi-agent-spacex:             *)
(*   core/google_adk_manager.py  GoogleADKManager (discovery, negotiation,  *)
(*                               bulk transfer, close)                      *)
(*   agents/adk_agent.py         ADKAgent (process-wide singleton, the     *)
(*                               connect/send/receive/close actions)        *)
(*   core/agent_manager.py       AgentManager.execute (plan order, three    *)
(*                               attempts per agent)                        *)
(*   agents/planner_agent.py     PlannerAgent.run                           *)
(* The USB stack (pyusb) is the environment: every call into it may return *)
(* or raise, chosen nondeterministically per call.                          *)
(***************************************************************************)
EXTENDS Integers, Sequences, FiniteSets, TLC

(***************************************************************************)
(* Bounds of the model.                                                     *)
(***************************************************************************)
\* longest USB enumeration drawn for one find-all call
MaxEnum == 3
\* longest task plan handed to AgentManager
MaxPlan == 2

(***************************************************************************)
(* Program constants.                                                       *)
(***************************************************************************)
\* google_adk_manager.py:15-22 (0x18D1, 0x22D9, 0x2717, 0x04E8, 0x0BB4, 0x12D1)
ANDROID_VENDOR_IDS == {6353, 8921, 10007, 1256, 2996, 4817}

ADK_INTERFACE_CLASS == 255
ADK_INTERFACE_SUBCLASS == 255
ADK_INTERFACE_PROTOCOL == 0
\* usb.util.ENDPOINT_IN, the direction bit of bEndpointAddress
ENDPOINT_IN == 128
\* agent_manager.py:31
max_attempts == 3
\* receive_data's default size
DefaultReadSize == 64

\* ANDROID_VENDOR_IDS.get(vendor_id, "Unknown")
VendorName(v) ==
    CASE v = 6353  -> "Google"
      [] v = 8921  -> "OPPO"
      [] v = 10007 -> "Xiaomi"
      [] v = 1256  -> "Samsung"
      [] v = 2996  -> "HTC"
      [] v = 4817  -> "Huawei"
      [] OTHER     -> "Unknown"

(***************************************************************************)
(* The devices the environment can attach.  A device is named by its index *)
(* in USB_DEVICES; 0 stands for Python's None wherever a device, a handle, *)
(* an interface or an endpoint is held.                                    *)
(***************************************************************************)
Intf(cls, sub, proto, num, eps) ==
    [bInterfaceClass |-> cls, bInterfaceSubClass |-> sub,
     bInterfaceProtocol |-> proto, bInterfaceNumber |-> num, endpoints |-> eps]

USB_DEVICES ==
    << \* 1: Google phone in accessory mode: one IN (0x81), one OUT (0x02)
       [idVendor |-> 6353, idProduct |-> 11521,
        interfaces |-> << Intf(255, 255, 0, 0, <<129, 2>>) >>],
       \* 2: Samsung: accessory interface with an IN endpoint only
       [idVendor |-> 1256, idProduct |-> 26720,
        interfaces |-> << Intf(255, 255, 0, 0, <<129>>) >>],
       \* 3: Xiaomi: mass storage first, accessory interface with OUT only
       [idVendor |-> 10007, idProduct |-> 65352,
        interfaces |-> << Intf(8, 6, 80, 0, <<130, 1>>),
                          Intf(255, 255, 0, 1, <<3>>) >>],
       \* 4: a mouse (vendor 0x046D, not in the registry)
       [idVendor |-> 1133, idProduct |-> 49271,
        interfaces |-> << Intf(3, 1, 2, 0, <<129>>) >>],
       \* 5: HTC: vendor-specific interface with protocol 0x01
       [idVendor |-> 2996, idProduct |-> 3074,
        interfaces |-> << Intf(255, 255, 1, 0, <<129, 2>>) >>],
       \* 6: Huawei: accessory interface with two IN endpoints and one OUT
       [idVendor |-> 4817, idProduct |-> 4229,
        interfaces |-> << Intf(255, 255, 0, 0, <<129, 131, 2>>) >>] >>

DeviceIds == 1..Len(USB_DEVICES)

NoDevice == 0
NoHandle == 0
\* the handle device.open() returns
Handle == 1
NoInterface == [dev |-> 0, num |-> 0]
NoEndpoint == [dev |-> 0, addr |-> 0]

\* the sequences usb.core.find(find_all=True) can yield: distinct devices
Enumerations ==
    { e \in UNION { [1..n -> DeviceIds] : n \in 0..MaxEnum } :
        \A i, j \in DOMAIN e : i # j => e[i] # e[j] }

\* the enumerations a connect request draws: nothing attached or one device.
\* A connect depends on the enumeration only through the device that
\* find_android_device selects, and these select every device or none.
Attached == { <<>> } \cup { <<d>> : d \in DeviceIds }


(***************************************************************************)
(* The state the operations below work on, as one record:                   *)
(*   device .. endpoint_out          GoogleADKManager's fields              *)
(*   instance, is_connected          ADKAgent's fields                      *)
(*   handle_open, claimed            what the USB stack holds: whether the  *)
(*       handle in `connection` is open, and whether it has an interface    *)
(*       claimed                                                            *)
(*   calls .. after_close            a trace of the last ADKAgent call: the *)
(*       USB calls issued in order, the branch find_android_device logged,  *)
(*       the return values, the branch of run taken (op), and whether the   *)
(*       run before it took the close branch (after_close)                  *)
(***************************************************************************)
NoTrace ==
    [calls |-> <<>>, enum |-> <<>>, find_log |-> "", find_ret |-> NoDevice,
     setup_ret |-> "", send_ret |-> "", recv_ret |-> "", double_open |-> FALSE,
     op |-> "", write |-> "", read |-> "", after_close |-> FALSE]

Call(w, c) == [w EXCEPT !.calls = Append(@, c)]

ClearTrace(w) ==
    [w EXCEPT !.calls = <<>>, !.enum = <<>>, !.find_log = "",
              !.find_ret = NoDevice, !.setup_ret = "", !.send_ret = "",
              !.recv_ret = "", !.double_open = FALSE, !.op = "",
              !.write = "", !.read = "",
              !.after_close = IF w.op # "" THEN w.op = "close" ELSE @]

(***************************************************************************)
(* GoogleADKManager.close                                                   *)
(* One raise anywhere in the try block skips the five resets.               *)
(***************************************************************************)
ResetFields(w) ==
    [w EXCEPT !.device = NoDevice, !.connection = NoHandle,
              !.interface = NoInterface, !.endpoint_in = NoEndpoint,
              !.endpoint_out = NoEndpoint]

close(w, faults) ==
    LET release == w.connection # NoHandle /\ w.interface # NoInterface
    IN  IF release /\ "releaseInterface" \in faults
        THEN Call(w, "releaseInterface")
        ELSE
        LET w1 == IF release
                  THEN [Call(w, "releaseInterface") EXCEPT !.claimed = FALSE]
                  ELSE w
        IN  IF w1.connection # NoHandle /\ "close" \in faults
            THEN Call(w1, "close")
            ELSE
            LET w2 == IF w1.connection # NoHandle
                      THEN [Call(w1, "close") EXCEPT !.handle_open = FALSE,
                                                     !.claimed = FALSE]
                      ELSE w1
            IN  IF w2.device # NoDevice /\ "dispose_resources" \in faults
                THEN Call(w2, "dispose_resources")
                ELSE ResetFields(IF w2.device # NoDevice
                                 THEN Call(w2, "dispose_resources")
                                 ELSE w2)

(***************************************************************************)
(* GoogleADKManager.find_android_device                                     *)
(* env.enum is what find-all yields; env.one_shot says whether it is a      *)
(* generator (list(devices) exhausts it, the for loop then sees nothing)    *)
(* or a list (the for loop sees it again).                                   *)
(***************************************************************************)
\* the devices the for loop at line 86 iterates over
LoopDevices(env) == IF env.one_shot THEN <<>> ELSE env.enum

\* index of the first device of seq whose vendor id is in the registry, or 0
FirstAndroid(seq) ==
    LET hits == { i \in DOMAIN seq :
                    USB_DEVICES[seq[i]].idVendor \in ANDROID_VENDOR_IDS }
    IN  IF hits = {} THEN 0 ELSE CHOOSE i \in hits : \A j \in hits : i <= j

\* found_devices_info when the loop ran to its end
FoundDevicesInfo(seq) ==
    [ i \in DOMAIN seq |->
        << VendorName(USB_DEVICES[seq[i]].idVendor),
           USB_DEVICES[seq[i]].idVendor, USB_DEVICES[seq[i]].idProduct >> ]

\* result: [w, ret (device or NoDevice), raised]
find_android_device(w, env) ==
    LET w0 == Call(w, "find_all")
        Found(log, d) == [w0 EXCEPT !.find_log = log, !.find_ret = d]
        seen == LoopDevices(env)
        hit == FirstAndroid(seen)
    IN  IF env.find_exc = "NoBackendError"
        THEN [w |-> Found("backend", NoDevice),
              ret |-> NoDevice, raised |-> TRUE]
        ELSE IF env.find_exc # "none"
        THEN [w |-> Found("error", NoDevice),
              ret |-> NoDevice, raised |-> FALSE]
        ELSE IF Len(env.enum) = 0
        THEN [w |-> Found("no_devices_at_all", NoDevice),
              ret |-> NoDevice, raised |-> FALSE]
        ELSE IF hit # 0
        THEN [w |-> [Found("found", seen[hit]) EXCEPT !.device = seen[hit]],
              ret |-> seen[hit], raised |-> FALSE]
        ELSE IF Len(FoundDevicesInfo(seen)) > 0
        THEN [w |-> Found("none_recognized", NoDevice),
              ret |-> NoDevice, raised |-> FALSE]
        ELSE [w |-> Found("no_devices_found", NoDevice),
              ret |-> NoDevice, raised |-> FALSE]

(***************************************************************************)
(* GoogleADKManager.setup_usb_communication                                 *)
(* Modelled for sys.platform # "win32" (the kernel-driver loop runs; a      *)
(* USBError of detach_kernel_driver is swallowed at line 141).  env.faults  *)
(* names the USB calls that raise; "open:None" makes device.open() return   *)
(* a falsy handle instead.                                                   *)
(***************************************************************************)
\* usb.util.endpoint_direction(address) = address & 0x80
endpoint_direction(addr) == ((addr \div 128) % 2) * 128

IsADKInterface(intf) ==
    /\ intf.bInterfaceClass = ADK_INTERFACE_CLASS
    /\ intf.bInterfaceSubClass = ADK_INTERFACE_SUBCLASS
    /\ intf.bInterfaceProtocol = ADK_INTERFACE_PROTOCOL

\* the last endpoint of eps with the wanted direction bit, else `old`
RECURSIVE AssignEndpoint(_, _, _, _)
AssignEndpoint(eps, dev, wantIn, old) ==
    IF eps = <<>> THEN old
    ELSE LET ep == eps[Len(eps)]
         IN  IF (endpoint_direction(ep) = ENDPOINT_IN) = wantIn
             THEN [dev |-> dev, addr |-> ep]
             ELSE AssignEndpoint(SubSeq(eps, 1, Len(eps) - 1), dev, wantIn, old)

\* lines 151-166: the first interface with the accessory triple sets
\* self.interface, each of its endpoints overwrites endpoint_in or endpoint_out
ScanInterfaces(w) ==
    LET intfs == USB_DEVICES[w.device].interfaces
        hits == { i \in DOMAIN intfs : IsADKInterface(intfs[i]) }
    IN  IF hits = {} THEN w
        ELSE LET i == CHOOSE k \in hits : \A j \in hits : k <= j
                 eps == intfs[i].endpoints
             IN  [w EXCEPT
                    !.interface = [dev |-> w.device,
                                   num |-> intfs[i].bInterfaceNumber],
                    !.endpoint_in = AssignEndpoint(eps, w.device, TRUE, @),
                    !.endpoint_out = AssignEndpoint(eps, w.device, FALSE, @)]

\* line 174: self.connection = self.device.open(); the handle the old
\* self.connection held is no longer referenced
OpenDevice(w, ok) ==
    [w EXCEPT !.connection = IF ok THEN Handle ELSE NoHandle,
              !.handle_open = ok,
              !.claimed = FALSE]

\* result: the state with setup_ret "True" or "False"
setup_usb_communication(w, env) ==
    LET faults == env.faults
        Ret(x, b) == [x EXCEPT !.setup_ret = IF b THEN "True" ELSE "False"]
        Handler(x) == Ret(close(x, faults), FALSE)
    IN  IF w.device = NoDevice THEN Ret(w, FALSE)
        ELSE IF "is_kernel_driver_active" \in faults
        THEN Handler(Call(w, "is_kernel_driver_active"))
        ELSE
        LET w1 == Call(w, "is_kernel_driver_active")
        IN  IF "set_configuration" \in faults
            THEN Handler(Call(w1, "set_configuration"))
            ELSE IF "get_active_configuration" \in faults
            THEN Handler(Call(Call(w1, "set_configuration"),
                              "get_active_configuration"))
            ELSE
            LET w2 == ScanInterfaces(Call(Call(w1, "set_configuration"),
                                          "get_active_configuration"))
            IN  IF \/ w2.interface = NoInterface
                   \/ w2.endpoint_in = NoEndpoint
                   \/ w2.endpoint_out = NoEndpoint
                THEN Ret(w2, FALSE)
                ELSE
                LET w3 == [Call(w2, "open") EXCEPT
                             !.double_open = w2.handle_open]
                IN  IF "open" \in faults THEN Handler(w3)
                    ELSE
                    LET w4 == OpenDevice(w3, "open:None" \notin faults)
                    IN  IF w4.connection = NoHandle THEN Ret(w4, FALSE)
                        ELSE IF "claimInterface" \in faults
                        THEN Handler(Call(w4, "claimInterface"))
                        ELSE Ret([Call(w4, "claimInterface") EXCEPT
                                    !.claimed = TRUE], TRUE)


(***************************************************************************)
(* GoogleADKManager.send_data / receive_data                                *)
(* env.write = [exc, n]: bulkWrite returns n or raises a USBError ("timeout" *)
(* or "usb"); env.read = [exc, data] likewise for bulkRead.                 *)
(***************************************************************************)
\* how the trace names a bulkWrite / bulkRead outcome
WriteKind(wr, bytes) ==
    IF wr.exc # "none" THEN wr.exc
    ELSE IF wr.n = Len(bytes) THEN "full" ELSE "short"

ReadKind(rd) ==
    IF rd.exc # "none" THEN rd.exc
    ELSE IF Len(rd.data) > 0 THEN "data" ELSE "empty"

\* result: the state with send_ret "True" or "False"
send_data(w, bytes, env) ==
    IF w.connection = NoHandle \/ w.endpoint_out = NoEndpoint
    THEN [w EXCEPT !.send_ret = "False"]
    ELSE LET w1 == [Call(w, "bulkWrite") EXCEPT !.write = WriteKind(env.write, bytes)]
         IN  IF env.write.exc = "none" /\ env.write.n = Len(bytes)
             THEN [w1 EXCEPT !.send_ret = "True"]
             ELSE [w1 EXCEPT !.send_ret = "False"]

\* receive_data as it would be if its USBError handler tore the connection
\* down
receive_data_closing(w, size, env) ==
    IF w.connection = NoHandle \/ w.endpoint_in = NoEndpoint
    THEN [w |-> [w EXCEPT !.recv_ret = "None"], ret |-> <<>>]
    ELSE LET w1 == [Call(w, "bulkRead") EXCEPT !.read = ReadKind(env.read)]
         IN  IF env.read.exc = "none" /\ Len(env.read.data) > 0
             THEN [w |-> [w1 EXCEPT !.recv_ret = "data"], ret |-> env.read.data]
             ELSE IF env.read.exc = "none"
             THEN [w |-> [w1 EXCEPT !.recv_ret = "None"], ret |-> <<>>]
             ELSE [w |-> [close(w1, {}) EXCEPT !.recv_ret = "None"], ret |-> <<>>]

\* result: [w, ret]: ret is the bytes received, <<>> standing for None
receive_data(w, size, env) ==
    IF w.connection = NoHandle \/ w.endpoint_in = NoEndpoint
    THEN [w |-> [w EXCEPT !.recv_ret = "None"], ret |-> <<>>]
    ELSE LET w1 == [Call(w, "bulkRead") EXCEPT !.read = ReadKind(env.read)]
         IN  IF env.read.exc = "none" /\ Len(env.read.data) > 0
             THEN [w |-> [w1 EXCEPT !.recv_ret = "data"], ret |-> env.read.data]
             ELSE [w |-> [w1 EXCEPT !.recv_ret = "None"], ret |-> <<>>]

(***************************************************************************)
(* str.encode() and bytes.decode(): UTF-8 over code points below 0x800.     *)
(***************************************************************************)
RECURSIVE encode(_)
encode(str) ==
    IF str = <<>> THEN <<>>
    ELSE LET c == Head(str)
         IN  (IF c < 128 THEN <<c>>
              ELSE << 192 + (c \div 64), 128 + (c % 64) >>) \o encode(Tail(str))

\* result: [ok, str]; ok = FALSE is UnicodeDecodeError.  Lead bytes of the
\* three- and four-byte forms (0xE0..0xF7) are outside the inputs drawn.
RECURSIVE decode(_)
decode(bytes) ==
    IF bytes = <<>> THEN [ok |-> TRUE, str |-> <<>>]
    ELSE LET b == Head(bytes)
         IN  IF b < 128
             THEN LET r == decode(Tail(bytes))
                  IN  [ok |-> r.ok, str |-> <<b>> \o r.str]
             ELSE IF /\ b >= 194 /\ b < 224 /\ Len(bytes) >= 2
                     /\ bytes[2] >= 128 /\ bytes[2] < 192
             THEN LET r == decode(Tail(Tail(bytes)))
                  IN  [ok |-> r.ok,
                       str |-> <<(b - 192) * 64 + (bytes[2] - 128)>> \o r.str]
             ELSE [ok |-> FALSE, str |-> <<>>]

(***************************************************************************)
(* ADKAgent                                                                 *)
(***************************************************************************)
\* a result dict: the keys present and their values
Result(status, message) ==
    [keys |-> {"status", "message"}, status |-> status, message |-> message,
     sent_data |-> <<>>, received_data |-> <<>>, data |-> <<>>]

NoResult ==
    [keys |-> {}, status |-> "", message |-> "",
     sent_data |-> <<>>, received_data |-> <<>>, data |-> <<>>]

\* result: [w, ret]
connect_device(w, env) ==
    IF w.is_connected THEN [w |-> w, ret |-> TRUE]
    ELSE LET f == find_android_device(w, env)
         IN  IF f.raised \/ f.ret = NoDevice THEN [w |-> f.w, ret |-> FALSE]
             ELSE LET w2 == setup_usb_communication(f.w, env)
                  IN  IF w2.setup_ret = "True"
                      THEN [w |-> [w2 EXCEPT !.is_connected = TRUE], ret |-> TRUE]
                      ELSE [w |-> w2, ret |-> FALSE]

Returns(w, value) == [w |-> w, outcome |-> "ok", value |-> value]
Raises(w, message) ==
    [w |-> w, outcome |-> "raise", value |-> Result("error", message)]

\* lines 81-108
RunSend(w, input, env) ==
    IF input.data = <<>>
    THEN Returns(w, Result("error", "No data provided to send"))
    ELSE LET w1 == send_data(w, encode(input.data), env)
         IN  IF w1.send_ret # "True"
             THEN Returns(w1, Result("error", "Failed to send data"))
             ELSE LET r == receive_data(w1, DefaultReadSize, env)
                      d == decode(r.ret)
                  IN  IF r.ret = <<>>
                      THEN Returns(r.w,
                             [Result("warning", "Data sent but no response received")
                                EXCEPT !.keys = @ \cup {"sent_data"},
                                       !.sent_data = input.data])
                      ELSE IF ~d.ok
                      THEN Returns(r.w, Result("error", "UnicodeDecodeError"))
                      ELSE Returns(r.w,
                             [Result("success", "Data sent and response received")
                                EXCEPT !.keys = @ \cup {"sent_data", "received_data"},
                                       !.sent_data = input.data,
                                       !.received_data = d.str])

\* lines 110-123 as they would be if a read without data were an error
RunReceive_failing(w, env) ==
    LET r == receive_data(w, DefaultReadSize, env)
        d == decode(r.ret)
    IN  IF r.ret = <<>>
        THEN Raises(r.w, "No data received within timeout period")
        ELSE IF ~d.ok
        THEN Returns(r.w, Result("error", "UnicodeDecodeError"))
        ELSE Returns(r.w, [Result("success", "Data received successfully")
                             EXCEPT !.keys = @ \cup {"data"}, !.data = d.str])

\* lines 110-123
RunReceive(w, env) ==
    LET r == receive_data(w, DefaultReadSize, env)
        d == decode(r.ret)
    IN  IF r.ret = <<>>
        THEN Returns(r.w, Result("warning", "No data received within timeout period"))
        ELSE IF ~d.ok
        THEN Returns(r.w, Result("error", "UnicodeDecodeError"))
        ELSE Returns(r.w, [Result("success", "Data received successfully")
                             EXCEPT !.keys = @ \cup {"data"}, !.data = d.str])

\* lines 125-128
RunClose(w, env) ==
    Returns([close(w, env.faults) EXCEPT !.is_connected = FALSE],
            Result("success", "Connection closed"))

\* ADKAgent.run on the instance whose construction raised in __new__: it has
\* no adk_manager and no logger, so every handler that logs raises again
RunBroken(w, input) ==
    IF input.kind \in {"none", "dict"}
    THEN Raises(w, "'ADKAgent' object has no attribute 'logger'")
    ELSE Returns(w, Result("error", "Unknown action"))

\* ADKAgent.run as it would be without the check of line 77
ADKAgent_run_unguarded(w0, input, env) ==
    LET w == ClearTrace(w0)
        Op(x, name) == [x EXCEPT !.w = [x.w EXCEPT !.op = name]]
    IN  IF w.instance = "broken" THEN Op(RunBroken(w, input), "broken")
        ELSE IF input.kind = "none"
        THEN LET c == connect_device(w, env)
             IN  Op(IF c.ret
                    THEN Returns(c.w, Result("success", "Connected to device"))
                    ELSE Returns(c.w, Result("error", "Failed to connect to device")),
                    "connect")
        ELSE IF input.kind # "dict"
        THEN Op(Returns(w, Result("error", "Unknown action")), "unknown")
        ELSE IF input.action = "send" THEN Op(RunSend(w, input, env), "send")
        ELSE IF input.action = "receive" THEN Op(RunReceive(w, env), "receive")
        ELSE IF input.action = "close" THEN Op(RunClose(w, env), "close")
        ELSE Op(Returns(w, Result("error", "Unknown action")), "unknown")

\* ADKAgent.run; result: [w, outcome, value]
ADKAgent_run(w0, input, env) ==
    LET w == ClearTrace(w0)
        Op(x, name) == [x EXCEPT !.w = [x.w EXCEPT !.op = name]]
    IN  IF w.instance = "broken" THEN Op(RunBroken(w, input), "broken")
        ELSE IF input.kind = "none"
        THEN LET c == connect_device(w, env)
             IN  Op(IF c.ret
                    THEN Returns(c.w, Result("success", "Connected to device"))
                    ELSE Returns(c.w, Result("error", "Failed to connect to device")),
                    "connect")
        ELSE IF input.kind # "dict"
        THEN Op(Returns(w, Result("error", "Unknown action")), "unknown")
        ELSE IF ~w.is_connected /\ input.action # "close"
        THEN Op(Returns(w, Result("error", "Not connected to device")), "rejected")
        ELSE IF input.action = "send" THEN Op(RunSend(w, input, env), "send")
        ELSE IF input.action = "receive" THEN Op(RunReceive(w, env), "receive")
        ELSE IF input.action = "close" THEN Op(RunClose(w, env), "close")
        ELSE Op(Returns(w, Result("error", "Unknown action")), "unknown")

\* ADKAgent.__new__ as it would be without the singleton: every call makes
\* a new agent with a new manager, and _is_connected reads False on it
ADKAgent_new_fresh(w0, backend) ==
    LET w == ClearTrace(w0)
        w1 == Call(ResetFields([w EXCEPT !.is_connected = FALSE]), "find_all")
    IN  IF backend # "ok"
        THEN [w |-> [w1 EXCEPT !.instance = "broken"], raised |-> TRUE]
        ELSE [w |-> [w1 EXCEPT !.instance = "ok"], raised |-> FALSE]

\* ADKAgent.__new__ with GoogleADKManager.__init__ and _check_usb_backend;
\* result: [w, raised]
ADKAgent_new(w0, backend) ==
    LET w == ClearTrace(w0)
    IN  IF w.instance # "none" THEN [w |-> w, raised |-> FALSE]
        ELSE LET w1 == Call(ResetFields(w), "find_all")
             IN  IF backend # "ok"
                 THEN [w |-> [w1 EXCEPT !.instance = "broken"], raised |-> TRUE]
                 ELSE [w |-> [w1 EXCEPT !.instance = "ok"], raised |-> FALSE]

(***************************************************************************)
(* PlannerAgent.run: raises unless the input holds a 'goal' key             *)
(***************************************************************************)
PlannerAgent_run(w, input) ==
    IF input.kind = "dict" /\ input.goal
    THEN Returns(w, [NoResult EXCEPT !.keys = {"tasks"}])
    ELSE IF input.kind = "none"
    THEN Raises(w, "argument of type 'NoneType' is not iterable")
    ELSE Raises(w, "Input data must contain a 'goal' key")

(***************************************************************************)
(* State                                                                    *)
(***************************************************************************)
VARIABLES
    \* GoogleADKManager (the one instance the ADKAgent singleton owns)
    device, connection, interface, endpoint_in, endpoint_out,
    \* ADKAgent: _instance ("none", "ok", or "broken": __new__ stored the
    \* instance and GoogleADKManager() then raised) and _is_connected; the
    \* agent's own device field is written and never read, and is left out
    instance, is_connected,
    \* the USB stack
    handle_open, claimed,
    \* whether usb.core.find(find_all=True) yields a generator or a list
    find_all_is_generator,
    \* the trace of the last ADKAgent call
    trace,
    \* AgentManager.execute: the plan, the input, the position in the code
    \* ("idle", "for", "while", "returned", "raised"), the plan index, the
    \* attempt number, the returned dict or the escaped exception
    task_plan, input_data, pc, idx, attempt, result, error,
    \* per execute: the plan positions handed to get_agent_instance, and one
    \* entry per agent.run call
    fetched, attempt_log

mgr_vars == <<device, connection, interface, endpoint_in, endpoint_out>>
adk_vars == <<instance, is_connected>>
usb_vars == <<handle_open, claimed>>
exec_vars == <<task_plan, input_data, pc, idx, attempt, result, error,
               fetched, attempt_log>>
vars == <<mgr_vars, adk_vars, usb_vars, find_all_is_generator, trace, exec_vars>>

World ==
    [device |-> device, connection |-> connection, interface |-> interface,
     endpoint_in |-> endpoint_in, endpoint_out |-> endpoint_out,
     instance |-> instance, is_connected |-> is_connected,
     handle_open |-> handle_open, claimed |-> claimed,
     calls |-> trace.calls, enum |-> trace.enum, find_log |-> trace.find_log,
     find_ret |-> trace.find_ret, setup_ret |-> trace.setup_ret,
     send_ret |-> trace.send_ret, recv_ret |-> trace.recv_ret,
     double_open |-> trace.double_open, op |-> trace.op,
     write |-> trace.write, read |-> trace.read,
     after_close |-> trace.after_close]

Commit(w) ==
    /\ device' = w.device
    /\ connection' = w.connection
    /\ interface' = w.interface
    /\ endpoint_in' = w.endpoint_in
    /\ endpoint_out' = w.endpoint_out
    /\ instance' = w.instance
    /\ is_connected' = w.is_connected
    /\ handle_open' = w.handle_open
    /\ claimed' = w.claimed
    /\ trace' = [calls |-> w.calls, enum |-> w.enum, find_log |-> w.find_log,
                 find_ret |-> w.find_ret, setup_ret |-> w.setup_ret,
                 send_ret |-> w.send_ret, recv_ret |-> w.recv_ret,
                 double_open |-> w.double_open, op |-> w.op,
                 write |-> w.write, read |-> w.read,
                 after_close |-> w.after_close]
    /\ UNCHANGED find_all_is_generator

(***************************************************************************)
(* Inputs                                                                   *)
(***************************************************************************)
\* the agents dict of get_agent_instance
KnownAgents == {"PlannerAgent", "ADKAgent"}
\* names a plan can hold; PlannerAgent.plan also emits SpaceXAgent,
\* WeatherAgent and DelayAnalyzerAgent, which the agents dict lacks
AgentNames == KnownAgents \cup {"SpaceXAgent"}

TaskPlans == UNION { [1..n -> AgentNames] : n \in 0..MaxPlan }

\* plans of the device runs: what PlannerAgent.plan answers for "", for
\* "Connect to Android device" and for the goal of run_manual; and a plan of
\* the other registered agent
DevicePlans ==
    { <<>>, <<"ADKAgent">>,
      <<"SpaceXAgent", "WeatherAgent", "DelayAnalyzerAgent">>,
      <<"PlannerAgent">> }

Input(kind, action, data, goal) ==
    [kind |-> kind, action |-> action, data |-> data, goal |-> goal]

NoInput == Input("none", "", <<>>, FALSE)

\* input_data of execute: None, the action dicts of run_adk_tasks (data is a
\* string of code points, <<>> for a missing or empty one), a dict with an
\* action outside the vocabulary, a dict with a goal, and a non-dict
Inputs ==
    { NoInput,
      Input("dict", "send", <<233>>, FALSE),
      Input("dict", "send", <<>>, FALSE),
      Input("dict", "receive", <<>>, FALSE),
      Input("dict", "close", <<>>, FALSE),
      Input("dict", "reset", <<>>, FALSE),
      Input("dict", "", <<>>, TRUE),
      Input("other", "", <<>>, FALSE) }

\* USB calls that can raise during connect, and during close
SetupFaults == {"is_kernel_driver_active", "set_configuration",
                "get_active_configuration", "open", "claimInterface"}
CloseFaults == {"releaseInterface", "close", "dispose_resources"}

FaultSets ==
    {{}, {"open:None"}} \cup { {c} : c \in CloseFaults }
      \cup { {a} : a \in SetupFaults }
      \cup { {a, c} : a \in SetupFaults, c \in CloseFaults }

WriteOutcomes(bytes) ==
    { [exc |-> "none", n |-> k] : k \in 0..Len(bytes) }
      \cup { [exc |-> e, n |-> 0] : e \in {"timeout", "usb"} }

\* bytes a bulkRead can deliver: nothing, "OK", e-acute, a byte that is
\* not UTF-8
ReadPayloads == { <<>>, <<79, 75>>, <<195, 169>>, <<255>> }

ReadOutcomes ==
    { [exc |-> "none", data |-> d] : d \in ReadPayloads }
      \cup { [exc |-> e, data |-> <<>>] : e \in {"timeout", "usb"} }

Env(enum, find_exc, faults, write, read) ==
    [enum |-> enum, find_exc |-> find_exc, faults |-> faults,
     write |-> write, read |-> read, one_shot |-> find_all_is_generator]

QuietEnv ==
    Env(<<>>, "none", {}, [exc |-> "none", n |-> 0], [exc |-> "none", data |-> <<>>])

\* the environment behaviours that matter to one ADKAgent.run call
EnvsFor(input) ==
    IF instance # "ok" THEN {QuietEnv}
    ELSE IF input.kind = "none"
    THEN IF is_connected THEN {QuietEnv}
         ELSE { [QuietEnv EXCEPT !.find_exc = e] : e \in {"NoBackendError", "USBError"} }
                \cup { [QuietEnv EXCEPT !.enum = e, !.faults = f] :
                         e \in Attached, f \in FaultSets }
    ELSE IF input.kind = "dict" /\ input.action = "close"
    THEN { [QuietEnv EXCEPT !.faults = f] : f \in {{}} \cup { {c} : c \in CloseFaults } }
    ELSE IF input.kind = "dict" /\ input.action = "send" /\ is_connected
    THEN { [QuietEnv EXCEPT !.write = wr, !.read = rd] :
             wr \in WriteOutcomes(encode(input.data)), rd \in ReadOutcomes }
    ELSE IF input.kind = "dict" /\ input.action = "receive" /\ is_connected
    THEN { [QuietEnv EXCEPT !.read = rd] : rd \in ReadOutcomes }
    ELSE {QuietEnv}

(***************************************************************************)
(* AgentManager.execute, one action per step of its loops                   *)
(***************************************************************************)
Init ==
    /\ device = NoDevice /\ connection = NoHandle /\ interface = NoInterface
    /\ endpoint_in = NoEndpoint /\ endpoint_out = NoEndpoint
    /\ instance = "none" /\ is_connected = FALSE
    /\ handle_open = FALSE /\ claimed = FALSE
    /\ find_all_is_generator \in BOOLEAN
    /\ trace = NoTrace
    /\ task_plan = <<>> /\ input_data = NoInput /\ pc = "idle"
    /\ idx = 1 /\ attempt = 1 /\ result = NoResult /\ error = ""
    /\ fetched = <<>> /\ attempt_log = <<>>

\* AgentManager(task_plan).execute(input_data) is entered
Begin(plan, input) ==
    /\ pc \in {"idle", "returned", "raised"}
    /\ task_plan' = plan
    /\ input_data' = input
    /\ pc' = "for"
    /\ idx' = 1
    /\ attempt' = 1
    /\ result' = NoResult
    /\ error' = ""
    /\ fetched' = <<>>
    /\ attempt_log' = <<>>
    /\ trace' = [NoTrace EXCEPT !.after_close =
                                 IF trace.op # "" THEN trace.op = "close"
                                 ELSE trace.after_close]

\* lines 30-32 after get_agent_instance returned or raised
Fetched(raised, message) ==
    /\ fetched' = Append(fetched, idx)
    /\ IF raised
       THEN pc' = "raised" /\ error' = message /\ UNCHANGED attempt
       ELSE pc' = "while" /\ attempt' = 1 /\ UNCHANGED error
    /\ UNCHANGED <<task_plan, input_data, idx, result, attempt_log>>

\* lines 34-47 as they would be if a non-empty output were handed on to the
\* next agent of the plan instead of being returned
AfterRun_chaining(outcome, value) ==
    /\ attempt_log' = Append(attempt_log, [agent |-> idx, attempt |-> attempt,
                                           outcome |-> outcome, value |-> value])
    /\ IF outcome = "ok"
       THEN IF idx < Len(task_plan)
            THEN pc' = "for" /\ idx' = idx + 1 /\ UNCHANGED <<attempt, result>>
            ELSE pc' = "returned" /\ result' = value /\ UNCHANGED <<idx, attempt>>
       ELSE IF outcome = "raise" /\ attempt = max_attempts
       THEN /\ pc' = "returned"
            /\ result' = Result("error", value.message)
            /\ UNCHANGED <<idx, attempt>>
       ELSE IF attempt + 1 <= max_attempts
       THEN pc' = "while" /\ attempt' = attempt + 1 /\ UNCHANGED <<idx, result>>
       ELSE pc' = "for" /\ idx' = idx + 1 /\ attempt' = attempt + 1
            /\ UNCHANGED result
    /\ UNCHANGED <<task_plan, input_data, error, fetched>>

\* lines 34-47 as they would be if a raising attempt were not counted
AfterRun_free_retry(outcome, value) ==
    /\ attempt_log' = Append(attempt_log, [agent |-> idx, attempt |-> attempt,
                                           outcome |-> outcome, value |-> value])
    /\ IF outcome = "ok"
       THEN pc' = "returned" /\ result' = value /\ UNCHANGED <<idx, attempt>>
       ELSE IF outcome = "raise"
       THEN pc' = "while" /\ UNCHANGED <<idx, attempt, result>>
       ELSE IF attempt + 1 <= max_attempts
       THEN pc' = "while" /\ attempt' = attempt + 1 /\ UNCHANGED <<idx, result>>
       ELSE pc' = "for" /\ idx' = idx + 1 /\ attempt' = attempt + 1
            /\ UNCHANGED result
    /\ UNCHANGED <<task_plan, input_data, error, fetched>>

\* lines 34-47 after agent.run returned value (outcome "ok": a non-empty
\* output, "empty": an empty one) or raised (outcome "raise")
AfterRun(outcome, value) ==
    /\ attempt_log' = Append(attempt_log, [agent |-> idx, attempt |-> attempt,
                                           outcome |-> outcome, value |-> value])
    /\ IF outcome = "ok"
       THEN pc' = "returned" /\ result' = value /\ UNCHANGED <<idx, attempt>>
       ELSE IF outcome = "raise" /\ attempt = max_attempts
       THEN /\ pc' = "returned"
            /\ result' = Result("error", value.message)
            /\ UNCHANGED <<idx, attempt>>
       ELSE IF attempt + 1 <= max_attempts
       THEN pc' = "while" /\ attempt' = attempt + 1 /\ UNCHANGED <<idx, result>>
       ELSE pc' = "for" /\ idx' = idx + 1 /\ attempt' = attempt + 1
            /\ UNCHANGED result
    /\ UNCHANGED <<task_plan, input_data, error, fetched>>

BeginExecute ==
    /\ \E plan \in DevicePlans, input \in Inputs : Begin(plan, input)
    /\ UNCHANGED <<mgr_vars, adk_vars, usb_vars, find_all_is_generator>>

\* line 30 with the registered classes: ADKAgent() runs __new__,
\* PlannerAgent() has nothing to do
GetAgentInstance ==
    /\ pc = "for" /\ idx <= Len(task_plan)
    /\ LET name == task_plan[idx]
       IN  IF name \notin KnownAgents
           THEN /\ Fetched(TRUE, "Unknown agent")
                /\ UNCHANGED <<mgr_vars, adk_vars, usb_vars,
                               find_all_is_generator, trace>>
           ELSE IF name = "ADKAgent"
           THEN \E backend \in {"ok", "NoBackendError", "USBError"} :
                  \E r \in {ADKAgent_new(World, backend)} :
                      /\ Fetched(r.raised, "No USB backend available")
                      /\ Commit(r.w)
           ELSE /\ Fetched(FALSE, "")
                /\ UNCHANGED <<mgr_vars, adk_vars, usb_vars,
                               find_all_is_generator, trace>>

\* line 49
ForExhausted ==
    /\ pc = "for" /\ idx > Len(task_plan)
    /\ pc' = "returned"
    /\ result' = Result("error", "No output from any agent")
    /\ UNCHANGED <<task_plan, input_data, idx, attempt, error, fetched,
                   attempt_log>>
    /\ UNCHANGED <<mgr_vars, adk_vars, usb_vars, find_all_is_generator, trace>>

\* lines 34-47 with the registered classes
RunAttempt ==
    /\ pc = "while"
    /\ IF task_plan[idx] = "ADKAgent"
       THEN \E env \in EnvsFor(input_data) :
              \E r \in {ADKAgent_run(World, input_data, env)} :
                  /\ AfterRun(r.outcome, r.value)
                  /\ Commit(r.w)
       ELSE \E r \in {PlannerAgent_run(World, input_data)} :
                /\ AfterRun(r.outcome, r.value)
                /\ Commit(r.w)

Next == BeginExecute \/ GetAgentInstance \/ ForExhausted \/ RunAttempt

Spec == Init /\ [][Next]_vars

(***************************************************************************)
(* execute over agents known only by the agent protocol: the constructor    *)
(* returns or raises, run returns a non-empty dict, returns an empty one,   *)
(* or raises.                                                               *)
(***************************************************************************)
\* what the run of plan position i answers at attempt k
StubOutput(i, k) ==
    [Result("success", "output") EXCEPT !.keys = @ \cup {"data"}, !.data = <<i, k>>]

StubError(i, k) == [Result("error", "exception") EXCEPT !.data = <<i, k>>]

BeginExecuteStub ==
    /\ \E plan \in TaskPlans : Begin(plan, NoInput)
    /\ UNCHANGED <<mgr_vars, adk_vars, usb_vars, find_all_is_generator>>

GetStubInstance ==
    /\ pc = "for" /\ idx <= Len(task_plan)
    /\ IF task_plan[idx] \notin KnownAgents
       THEN Fetched(TRUE, "Unknown agent") /\ UNCHANGED instance
       ELSE IF task_plan[idx] = "ADKAgent" /\ instance = "none"
       THEN \E raised \in BOOLEAN :
              /\ Fetched(raised, "No USB backend available")
              /\ instance' = IF raised THEN "broken" ELSE "ok"
       ELSE Fetched(FALSE, "") /\ UNCHANGED instance
    /\ UNCHANGED <<mgr_vars, is_connected, usb_vars, find_all_is_generator, trace>>

RunStubAttempt ==
    /\ pc = "while"
    /\ \E outcome \in {"ok", "empty", "raise"} :
         AfterRun(outcome,
                  CASE outcome = "ok" -> StubOutput(idx, attempt)
                    [] outcome = "empty" -> NoResult
                    [] OTHER -> StubError(idx, attempt))
    /\ UNCHANGED <<mgr_vars, adk_vars, usb_vars, find_all_is_generator, trace>>

NextExec == BeginExecuteStub \/ GetStubInstance \/ ForExhausted \/ RunStubAttempt

SpecExec == Init /\ [][NextExec]_vars

(***************************************************************************)
(* find_android_device on its own: each step draws what find-all does and   *)
(* applies the method; trace.enum keeps the enumeration it yielded.         *)
(***************************************************************************)
FindDevice ==
    /\ \E enum \in Enumerations, exc \in {"none", "NoBackendError", "USBError"} :
         /\ exc # "none" => enum = <<>>
         /\ \E r \in {find_android_device(ClearTrace(World),
                                          [QuietEnv EXCEPT !.enum = enum,
                                                           !.find_exc = exc])} :
                Commit([r.w EXCEPT !.enum = enum, !.op = "find"])
    /\ UNCHANGED exec_vars

SpecFind == Init /\ [][FindDevice]_vars

(***************************************************************************)
(* Properties                                                               *)
(***************************************************************************)
InRegistry(d) == USB_DEVICES[d].idVendor \in ANDROID_VENDOR_IDS

HasCall(c) == \E k \in DOMAIN trace.calls : trace.calls[k] = c

AllEmpty ==
    /\ device = NoDevice /\ connection = NoHandle /\ interface = NoInterface
    /\ endpoint_in = NoEndpoint /\ endpoint_out = NoEndpoint

\* handle open, interface claimed, both endpoints set
Established ==
    /\ connection # NoHandle /\ handle_open /\ claimed
    /\ interface # NoInterface
    /\ endpoint_in # NoEndpoint /\ endpoint_out # NoEndpoint

\* the runs of plan position i, in order
RunsOf(i) == SelectSeq(attempt_log, LAMBDA e : e.agent = i)

\* C1 (checked under SpecFind): whenever the enumeration that find-all
\* yielded holds a device whose vendor id is in ANDROID_VENDOR_IDS,
\* find_android_device returns the first such device in enumeration order,
\* and not None.
C1_FirstMatchReturned ==
    (trace.op = "find" /\ trace.find_log \notin {"backend", "error"}) =>
        \A i \in DOMAIN trace.enum :
            ( /\ InRegistry(trace.enum[i])
              /\ \A j \in 1..(i - 1) : ~InRegistry(trace.enum[j]) )
            => trace.find_ret = trace.enum[i]

\* C2: a close action that follows a close action makes no releaseInterface
\* and no close call on the USB stack and ends, like the first, with every
\* reference empty and the agent not connected.
C2_SecondCloseIsNoOp ==
    (pc = "returned" /\ trace.op = "close" /\ trace.after_close) =>
        /\ ~HasCall("releaseInterface") /\ ~HasCall("close")
        /\ AllEmpty /\ ~is_connected
        /\ result.status = "success"

\* an environment in which the device takes every byte written
Cooperative(bytes) ==
    [QuietEnv EXCEPT !.write = [exc |-> "none", n |-> Len(bytes)]]

CooperativeSendSucceeds ==
    send_data(World, encode(<<233>>), Cooperative(encode(<<233>>))).send_ret = "True"

\* a send or receive request on a connected agent whose bulk transfer timed out
TimedOutStep ==
    /\ pc = "while" /\ is_connected /\ pc' = "returned"
    /\ trace'.op \in {"send", "receive"}
    /\ trace'.write = "timeout" \/ trace'.read = "timeout"

\* C3: a receive or send that times out on a connected connection answers
\* the no-data outcome (receive: warning, nothing received; send: failed, or
\* sent without a response) and changes neither the handle, the claimed
\* interface, the endpoints nor the connected flag, so that a send with a
\* cooperative transport succeeds right after it.
C3_TimeoutKeepsConnected ==
    [][ TimedOutStep =>
          /\ UNCHANGED <<mgr_vars, adk_vars, usb_vars>>
          /\ Established'
          /\ CooperativeSendSucceeds'
          /\ trace'.op = "receive" =>
               result' = Result("warning", "No data received within timeout period")
          /\ (trace'.op = "send" /\ trace'.write = "timeout") =>
               result' = Result("error", "Failed to send data")
          /\ (trace'.op = "send" /\ trace'.read = "timeout") =>
               /\ result'.status = "warning"
               /\ "received_data" \notin result'.keys ]_vars

C3_Witness ==
    /\ pc = "returned" /\ trace.op = "receive" /\ trace.read = "timeout"
    /\ is_connected /\ Established

\* C4 (checked under SpecExec): once the third attempt of the agent at plan
\* position i has ended without a usable result, no later position is handed
\* to get_agent_instance or run, and execute ends by returning an error.
C4_StopsAtExhaustedAgent ==
    \A i \in DOMAIN task_plan :
        (\E k \in DOMAIN attempt_log :
            /\ attempt_log[k].agent = i
            /\ attempt_log[k].attempt = max_attempts
            /\ attempt_log[k].outcome # "ok")
        => /\ \A k \in DOMAIN fetched : fetched[k] <= i
           /\ \A k \in DOMAIN attempt_log : attempt_log[k].agent <= i
           /\ pc \in {"returned", "raised"} =>
                pc = "returned" /\ result.status = "error"

\* C5 (checked under SpecExec): when the agent at plan position i raised on
\* its first k-1 attempts and returned a non-empty result on attempt k,
\* execute has returned exactly that result and run was invoked exactly k
\* times on that agent.
C5_RetryAccounting ==
    \A i \in DOMAIN task_plan, k \in 1..max_attempts :
        LET mine == RunsOf(i)
        IN  ( /\ Len(mine) >= k
              /\ \A a \in 1..(k - 1) : mine[a].outcome = "raise"
              /\ mine[k].outcome = "ok" )
            => /\ pc = "returned"
               /\ result = mine[k].value
               /\ result.data = <<i, k>>
               /\ mine[k].attempt = k
               /\ Len(mine) = k

C5_Witness ==
    /\ pc = "returned"
    /\ Len(attempt_log) = 3
    /\ attempt_log[1].outcome = "raise" /\ attempt_log[2].outcome = "raise"
    /\ attempt_log[3].outcome = "ok" /\ attempt_log[3].agent = 1
    /\ result = StubOutput(1, 3)

HasUnknown == \E i \in DOMAIN task_plan : task_plan[i] \notin KnownAgents

\* C6 (checked under SpecExec): for a plan holding an unknown identifier at
\* any position, no run is invoked and execute never returns a result.
C6_UnknownRejectedUpFront ==
    HasUnknown => attempt_log = <<>> /\ pc # "returned"

\* whether the accessory interface of device d has an endpoint of direction dir
AccessoryHas(d, dir) ==
    \E i \in DOMAIN USB_DEVICES[d].interfaces :
        LET intf == USB_DEVICES[d].interfaces[i]
        IN  /\ IsADKInterface(intf)
            /\ \E e \in DOMAIN intf.endpoints :
                 endpoint_direction(intf.endpoints[e]) = dir

\* C7: setup_usb_communication fails for a selected device whose accessory
\* interface lacks an IN endpoint or lacks an OUT endpoint, whatever was
\* attempted before, and a connected agent never has an empty endpoint.
C7_MissingEndpointFails ==
    /\ (trace.op = "connect" /\ trace.setup_ret = "True") =>
          /\ AccessoryHas(trace.find_ret, ENDPOINT_IN)
          /\ AccessoryHas(trace.find_ret, 0)
    /\ is_connected => endpoint_in # NoEndpoint /\ endpoint_out # NoEndpoint

\* C8: for a plan of registered agents execute never ends with an exception
\* escaping it, and what it returns is a dict.
C8_NoExceptionEscapes ==
    (\A i \in DOMAIN task_plan : task_plan[i] \in KnownAgents) =>
        /\ pc # "raised"
        /\ pc = "returned" => result.keys # {}

\* C9: when a close action has returned, the interface is released, the
\* handle is closed and the device, connection, interface and endpoint
\* references are all empty; it does not raise.
C9_CloseReleasesEverything ==
    (pc = "returned" /\ trace.op = "close") =>
        /\ ~claimed /\ ~handle_open
        /\ AllEmpty
        /\ result = Result("success", "Connection closed")

C11_FailedSetupRollsBack ==
    (trace.op = "connect" /\ trace.setup_ret = "False") =>
        /\ interface = NoInterface
        /\ endpoint_in = NoEndpoint /\ endpoint_out = NoEndpoint
        /\ connection = NoHandle /\ ~handle_open /\ ~claimed

\* C12: a connect request that follows a close action on the same agent and
\* manager does not end Connected.
C12_ClosedIsTerminal ==
    (pc = "returned" /\ trace.after_close /\ trace.op = "connect") =>
        ~is_connected

\* C13: device.open() is never called while the handle opened before it has
\* not been closed.
C13_OneOpenHandle == ~trace.double_open

\* the ADKAgent attempt about to run has the dict input with this action
AboutToRun(action) ==
    /\ pc = "while" /\ task_plan[idx] = "ADKAgent"
    /\ input_data.kind = "dict" /\ input_data.action = action

\* the run just made: the last entry of attempt_log
LastRun == attempt_log[Len(attempt_log)]

\* C14: a send request that reaches the agent while it is not connected is
\* answered with status "error" and the message "Not connected to device",
\* issues no USB call and changes neither the manager, the agent's flag nor
\* the USB stack.
C14_SendWhenNotConnected ==
    [][ (AboutToRun("send") /\ ~is_connected) =>
          /\ LastRun'.outcome = "ok"
          /\ LastRun'.value = Result("error", "Not connected to device")
          /\ trace'.calls = <<>>
          /\ UNCHANGED <<mgr_vars, adk_vars, usb_vars>> ]_vars

\* nothing was ever found, opened or claimed
Idle == AllEmpty /\ ~is_connected /\ ~handle_open /\ ~claimed

\* C15: a close request that reaches the agent in the Idle state is answered
\* with a non-error result, raises nothing, issues no releaseInterface and
\* no close call, and leaves everything empty and not connected.
C15_CloseFromIdle ==
    [][ (AboutToRun("close") /\ Idle) =>
          /\ LastRun'.outcome = "ok"
          /\ LastRun'.value.status # "error"
          /\ ~HasCall("releaseInterface")' /\ ~HasCall("close")'
          /\ Idle' ]_vars

\* C16 (checked under SpecFind): an empty enumeration gives None with the
\* "No USB devices found at all" report, and a non-empty enumeration without
\* a registry match gives None with the "none are recognized" report, never
\* a report that no device was found.
C16_ReasonsDistinct ==
    (trace.op = "find" /\ trace.find_log \notin {"backend", "error"}) =>
        /\ trace.enum = <<>> =>
             trace.find_log = "no_devices_at_all" /\ trace.find_ret = NoDevice
        /\ (trace.enum # <<>> /\ \A i \in DOMAIN trace.enum : ~InRegistry(trace.enum[i]))
             => trace.find_log = "none_recognized" /\ trace.find_ret = NoDevice

\* C17 (checked under SpecExec): an attempt that returned a non-empty result
\* is the last run of the execute call; execute has returned exactly that
\* result, and no plan position after that agent's was handed to
\* get_agent_instance.
C17_FirstSuccessWins ==
    \A k \in DOMAIN attempt_log :
        attempt_log[k].outcome = "ok" =>
            /\ k = Len(attempt_log)
            /\ pc = "returned"
            /\ result = attempt_log[k].value
            /\ result.data = <<attempt_log[k].agent, attempt_log[k].attempt>>
            /\ \A j \in DOMAIN fetched : fetched[j] <= attempt_log[k].agent

C17_Witness ==
    /\ Len(task_plan) = 2 /\ pc = "returned"
    /\ Len(attempt_log) = 2
    /\ attempt_log[1].outcome = "empty" /\ attempt_log[2].outcome = "ok"
    /\ attempt_log[2].agent = 1 /\ fetched = <<1>>
    /\ result = StubOutput(1, 2)

\* C18: in an execute call made with the USB backend unavailable (the agent
\* instance is the one whose construction met the missing backend, or
\* find-all raised NoBackendError in this call), ADKAgent.run is invoked at
\* most once, and a call that reached the agent does not end in success.
C18_BackendNotRetried ==
    (instance = "broken" \/ trace.find_log = "backend") =>
        \A i \in DOMAIN task_plan :
            task_plan[i] = "ADKAgent" =>
                /\ Len(RunsOf(i)) <= 1
                /\ (pc = "returned" /\ \E k \in DOMAIN fetched : fetched[k] = i)
                     => result.status = "error"

\* the endpoints of direction dir on the accessory interface of device d
AccessoryEndpoints(d, dir) ==
    LET intfs == USB_DEVICES[d].interfaces
    IN  UNION { { <<i, e>> : e \in { x \in DOMAIN intfs[i].endpoints :
                                       endpoint_direction(intfs[i].endpoints[x]) = dir } } :
                i \in { k \in DOMAIN intfs : IsADKInterface(intfs[k]) } }

\* C19: setup_usb_communication does not succeed on a device whose accessory
\* interface has more than one IN endpoint or more than one OUT endpoint.
C19_AmbiguousEndpointsFail ==
    (trace.op = "connect" /\ trace.setup_ret = "True") =>
        /\ Cardinality(AccessoryEndpoints(trace.find_ret, ENDPOINT_IN)) <= 1
        /\ Cardinality(AccessoryEndpoints(trace.find_ret, 0)) <= 1

\* C20: a connected agent holds an interface of the selected device whose
\* (class, subclass, protocol) is (0xFF, 0xFF, 0x00).
C20_OnlyCanonicalTriple ==
    is_connected =>
        /\ interface.dev = device
        /\ \E i \in DOMAIN USB_DEVICES[device].interfaces :
             /\ IsADKInterface(USB_DEVICES[device].interfaces[i])
             /\ USB_DEVICES[device].interfaces[i].bInterfaceNumber = interface.num

\* C21: a send on a connected agent whose bulk write took fewer bytes than
\* given is answered with status "warning", and the agent stays connected.
C21_ShortWriteIsWarning ==
    (pc = "returned" /\ trace.op = "send" /\ trace.write = "short") =>
        /\ result.status = "warning"
        /\ is_connected /\ Established

\* C22: a receive on a connected agent whose bulk read timed out is answered
\* with status "warning" by the one and only attempt of the execute call,
\* which returned it.
C22_ReceiveTimeoutIsWarning ==
    (trace.op = "receive" /\ trace.read = "timeout") =>
        /\ pc = "returned"
        /\ result.status = "warning"
        /\ Len(attempt_log) = 1
        /\ attempt_log[1].outcome = "ok" /\ attempt_log[1].value = result
        /\ is_connected

C22_Witness ==
    /\ pc = "returned" /\ trace.op = "receive" /\ trace.read = "timeout"
    /\ Len(attempt_log) = 1 /\ result.status = "warning"

\* the ADKAgent attempt about to run has a dict input whose action is none
\* of send, receive, close
AboutToRunUnknown ==
    /\ pc = "while" /\ task_plan[idx] = "ADKAgent"
    /\ input_data.kind = "dict"
    /\ input_data.action \notin {"send", "receive", "close", ""}

\* C23: a request with an action outside {send, receive, close}, connected
\* or not, is answered by its first attempt with the "Unknown action" error;
\* execute returns it, no USB call is made and nothing of the connection
\* changes.
C23_UnknownActionRejected ==
    [][ AboutToRunUnknown =>
          /\ attempt = 1
          /\ LastRun'.outcome = "ok"
          /\ LastRun'.value = Result("error", "Unknown action")
          /\ pc' = "returned" /\ result' = LastRun'.value
          /\ trace'.calls = <<>>
          /\ UNCHANGED <<mgr_vars, adk_vars, usb_vars>> ]_vars

\* C24: the agent's flag is set exactly when the manager holds an open
\* handle with a claimed interface and both endpoints, and while the flag is
\* clear no handle is open.
C24_FlagAgreesWithManager ==
    /\ is_connected <=> Established
    /\ ~is_connected => ~handle_open

\* C25: when setup_usb_communication has returned True, the stored
\* interface and both stored endpoints belong to the device that
\* find_android_device selected in the same connect request.
C25_NothingCarriedOver ==
    (trace.op = "connect" /\ trace.setup_ret = "True") =>
        /\ device = trace.find_ret
        /\ interface.dev = trace.find_ret
        /\ endpoint_in.dev = trace.find_ret
        /\ endpoint_out.dev = trace.find_ret

\* C26: a connected agent stays connected, on the same handle, interface
\* and endpoints, through every later execute call until a close request is
\* run; a send or receive request that reaches it meanwhile is not answered
\* "Not connected to device" and issues its bulk transfer.
C26_ConnectionPersists ==
    [][ is_connected =>
          /\ trace'.op # "close" => (is_connected' /\ UNCHANGED <<mgr_vars, usb_vars>>)
          /\ (AboutToRun("send") \/ AboutToRun("receive")) =>
               /\ trace'.op = input_data.action
               /\ LastRun'.outcome = "ok"
               /\ LastRun'.value.message # "Not connected to device"
          /\ (AboutToRun("send") /\ input_data.data # <<>>) => HasCall("bulkWrite")'
          /\ AboutToRun("receive") => HasCall("bulkRead")' ]_vars

C26_Witness ==
    /\ pc = "returned" /\ trace.op = "receive" /\ trace.read = "data"
    /\ result.status = "success" /\ is_connected
    /\ task_plan = <<"ADKAgent">>

\* C27 (checked under SpecExec): for a plan of known agents, run is invoked
\* at most max_attempts times per plan position and at most
\* max_attempts * Len(task_plan) times in all, and execute does not end
\* with an exception: what it returns is a dict.
C27_BoundedAndReturns ==
    (\A i \in DOMAIN task_plan : task_plan[i] \in KnownAgents) =>
        /\ \A i \in DOMAIN task_plan : Len(RunsOf(i)) <= max_attempts
        /\ Len(attempt_log) <= max_attempts * Len(task_plan)
        /\ pc # "raised"
        /\ pc = "returned" => result.keys # {}

=============================================================================
